---- MODULE Spec2Model ----
(***************************************************************************)
(* burst-pool: the SPMC dispatch channel of src/lib.rs (Sender, Receiver,  *)
(* Worker), modelled at the granularity of its atomic operations and       *)
(* eventfd syscalls.  One producer thread owns the Sender; every Receiver  *)
(* is owned by one consumer thread.  The BurstPool of src/src/lib.rs (one  *)
(* mpsc channel per thread, park/unpark) is a second machine on its own    *)
(* variables.                                                              *)
(***************************************************************************)
EXTENDS Integers, Sequences, FiniteSets, TLC

\* Bounds of the model.
MaxReceivers == 2       \* mk_receiver calls explored
MaxPayloads == 3        \* enqueue calls explored (each with a fresh Box)
MaxThreads == 2         \* BurstPool::spawn calls explored
MaxValues == 3          \* BurstPool::send calls explored (each with a fresh value)

\* Receiver states (src/lib.rs:172-175).
RS_WAITING == 0
RS_PENDING == 1
RS_RUNNING == 2
RS_ORPHANED == 3

\* ptr::null_mut(): the empty slot.  Payload pointers are 1..MaxPayloads.
NULL == 0

VARIABLES
    workers,            \* Sender.workers: Seq of Worker {state, slot}
    next_worker,        \* Sender.next_worker (0-based)
    workers_to_unblock, \* Sender.workers_to_unblock
    eventfd,            \* the counter of the EFD_SEMAPHORE eventfd
    spc,                \* where the producer thread is
    enq_i,              \* enqueue: loop variable i
    enq_x,              \* enqueue: argument x (the Box), 0 before the first call
    target_worker,      \* enqueue: target_worker (-1 is None)
    enq_ret,            \* enqueue: value returned by the last finished call
    drop_w,             \* drop: position of the iterator over workers
    rpc,                \* per receiver: where its consumer thread is
    rret,               \* per receiver: value returned by its last finished recv
    seen,               \* history: states the running/last enqueue observed
    accepted,           \* history: payloads whose enqueue returned None
    flushed,            \* history: accepted payloads followed by a wake_all
    received,           \* history: payload -> number of recv calls that returned it
    dest,               \* history: payload -> receiver whose slot enqueue stored it in (0: none)
    to_wake,            \* history: receivers blocked in poll on a zero counter when the last
                        \* wake_all wrote credits, whose poll has not returned since
    threads,            \* BurstPool.threads: per thread its channel (queue, tx), its park
                        \* token and where the thread is (pc, cur)
    next_thread,        \* BurstPool.next_thread (0-based)
    ppc,                \* where the thread owning the BurstPool is
    send_x,             \* send: argument x, 0 before the first call
    pool_drop_i,        \* drop: position of the drain(..) iterator
    sent_to,            \* history: value -> thread whose queue send pushed it on (0: none)
    consumed            \* history: value -> thread -> number of calls of its closure with it

chanVars == <<workers, next_worker, workers_to_unblock, eventfd, spc, enq_i, enq_x,
              target_worker, enq_ret, drop_w, rpc, rret, seen, accepted, flushed,
              received, dest, to_wake>>

poolVars == <<threads, next_thread, ppc, send_x, pool_drop_i, sent_to, consumed>>

vars == <<chanVars, poolVars>>

senderVars == <<next_worker, workers_to_unblock, spc, enq_i, enq_x,
                target_worker, enq_ret, drop_w, seen, accepted, flushed>>

Payloads == 1..MaxPayloads
Values == 1..MaxValues
Receivers == 1..Len(workers)

\* Return values.
NoRet == [tag |-> "none", val |-> NULL]
RetNone == [tag |-> "None", val |-> NULL]
RetSome(p) == [tag |-> "Some", val |-> p]
RetOk(p) == [tag |-> "Ok", val |-> p]
RetOrphaned == [tag |-> "Err", val |-> NULL]

\* Faulty variant of compare_and_swap: a plain swap, which stores unconditionally.
swap_always(s, current, new) == new

\* AtomicUsize::compare_and_swap(current, new) on a word holding s: the value stored.
\* (The value returned is s itself.)
compare_and_swap(s, current, new) == IF s = current THEN new ELSE s

SetState(k, s) == [workers EXCEPT ![k].state = s]
SetSlot(k, p) == [workers EXCEPT ![k].slot = p]

\* Sender::new(): no workers, cursor 0, nothing pending, eventfd(0, EFD_SEMAPHORE).
Init ==
    /\ workers = << >>
    /\ next_worker = 0
    /\ workers_to_unblock = 0
    /\ eventfd = 0
    /\ spc = "idle"
    /\ enq_i = 0
    /\ enq_x = 0
    /\ target_worker = -1
    /\ enq_ret = NoRet
    /\ drop_w = 0
    /\ rpc = << >>
    /\ rret = << >>
    /\ seen = {}
    /\ accepted = {}
    /\ flushed = {}
    /\ received = [p \in Payloads |-> 0]
    /\ dest = [p \in Payloads |-> 0]
    /\ to_wake = {}
    /\ threads = << >>
    /\ next_thread = 0
    /\ ppc = "idle"
    /\ send_x = 0
    /\ pool_drop_i = 0
    /\ sent_to = [x \in Values |-> 0]
    /\ consumed = [x \in Values |-> [t \in 1..MaxThreads |-> 0]]

----------------------------------------------------------------------------
\* Producer thread.

\* Faulty variant of mk_receiver: the new Worker starts in RS_WAITING.
mk_receiver_waiting ==
    /\ spc = "idle"
    /\ Len(workers) < MaxReceivers
    /\ workers' = Append(workers, [state |-> RS_WAITING, slot |-> NULL])
    /\ rpc' = Append(rpc, "running")
    /\ rret' = Append(rret, NoRet)
    /\ UNCHANGED <<senderVars, eventfd, received>>
    /\ UNCHANGED <<dest, to_wake, poolVars>>

\* Sender::mk_receiver
mk_receiver ==
    /\ spc = "idle"
    /\ Len(workers) < MaxReceivers
    /\ workers' = Append(workers, [state |-> RS_RUNNING, slot |-> NULL])
    /\ rpc' = Append(rpc, "running")
    /\ rret' = Append(rret, NoRet)
    /\ UNCHANGED <<senderVars, eventfd, received>>
    /\ UNCHANGED <<dest, to_wake, poolVars>>

\* Faulty variant of wake_all: workers_to_unblock is not reset.
wake_all_no_reset ==
    /\ spc = "idle"
    /\ eventfd' = eventfd + workers_to_unblock
    /\ flushed' = accepted
    /\ UNCHANGED <<workers, next_worker, workers_to_unblock, spc, enq_i, enq_x,
                   target_worker, enq_ret, drop_w, rpc, rret, seen, accepted, received>>
    /\ to_wake' = IF workers_to_unblock > 0
                  THEN {r \in Receivers : rpc[r] = "poll" /\ eventfd = 0}
                  ELSE to_wake
    /\ UNCHANGED <<dest, poolVars>>

\* Faulty variant of wake_all: at least one credit is written.
wake_all_min_one ==
    /\ spc = "idle"
    /\ eventfd' = eventfd + (IF workers_to_unblock > 0 THEN workers_to_unblock ELSE 1)
    /\ workers_to_unblock' = 0
    /\ flushed' = accepted
    /\ UNCHANGED <<workers, next_worker, spc, enq_i, enq_x, target_worker, enq_ret,
                   drop_w, rpc, rret, seen, accepted, received>>
    /\ to_wake' = IF workers_to_unblock > 0
                  THEN {r \in Receivers : rpc[r] = "poll" /\ eventfd = 0}
                  ELSE to_wake
    /\ UNCHANGED <<dest, poolVars>>

\* Sender::wake_all: one write of workers_to_unblock to the eventfd.
wake_all ==
    /\ spc = "idle"
    /\ eventfd' = eventfd + workers_to_unblock
    /\ workers_to_unblock' = 0
    /\ flushed' = accepted
    /\ UNCHANGED <<workers, next_worker, spc, enq_i, enq_x, target_worker, enq_ret,
                   drop_w, rpc, rret, seen, accepted, received>>
    /\ to_wake' = IF workers_to_unblock > 0
                  THEN {r \in Receivers : rpc[r] = "poll" /\ eventfd = 0}
                  ELSE to_wake
    /\ UNCHANGED <<dest, poolVars>>

\* Sender::enqueue is entered with a fresh Box.
enqueue_call ==
    /\ spc = "idle"
    /\ enq_x < MaxPayloads
    /\ enq_x' = enq_x + 1
    /\ enq_i' = 0
    /\ target_worker' = -1
    /\ seen' = {}
    /\ spc' = "scan"
    /\ UNCHANGED <<workers, next_worker, workers_to_unblock, eventfd, enq_ret, drop_w,
                   rpc, rret, accepted, flushed, received>>
    /\ UNCHANGED <<dest, to_wake, poolVars>>

\* Faulty variant of enqueue_scan: the RS_PENDING arm is grouped with "it was ready".
enqueue_scan_pending_ready ==
    /\ spc = "scan"
    /\ enq_i < Len(workers)
    /\ LET i2 == (enq_i + next_worker) % Len(workers)
           old == workers[i2 + 1].state
       IN  /\ workers' = SetState(i2 + 1, IF old \in {RS_WAITING, RS_PENDING}
                                          THEN RS_PENDING ELSE old)
           /\ seen' = seen \cup {old}
           /\ CASE old \in {RS_WAITING, RS_PENDING} ->
                     /\ target_worker' = i2
                     /\ spc' = "publish"
                     /\ enq_i' = enq_i
                [] old = RS_RUNNING ->
                     /\ enq_i' = enq_i + 1
                     /\ UNCHANGED <<target_worker, spc>>
                [] OTHER ->
                     /\ spc' = "panicked"
                     /\ UNCHANGED <<target_worker, enq_i>>
    /\ UNCHANGED <<next_worker, workers_to_unblock, eventfd, enq_x, enq_ret, drop_w,
                   rpc, rret, accepted, flushed, received>>
    /\ UNCHANGED <<dest, to_wake, poolVars>>

\* Faulty variant of enqueue_scan: the scan starts at index 0 (i, not i + next_worker).
enqueue_scan_from_zero ==
    /\ spc = "scan"
    /\ enq_i < Len(workers)
    /\ LET i2 == enq_i % Len(workers)
           old == workers[i2 + 1].state
       IN  /\ workers' = SetState(i2 + 1, compare_and_swap(old, RS_WAITING, RS_PENDING))
           /\ seen' = seen \cup {old}
           /\ CASE old = RS_WAITING ->
                     /\ target_worker' = i2
                     /\ spc' = "publish"
                     /\ enq_i' = enq_i
                [] old \in {RS_PENDING, RS_RUNNING} ->
                     /\ enq_i' = enq_i + 1
                     /\ UNCHANGED <<target_worker, spc>>
                [] OTHER ->
                     /\ spc' = "panicked"
                     /\ UNCHANGED <<target_worker, enq_i>>
    /\ UNCHANGED <<next_worker, workers_to_unblock, eventfd, enq_x, enq_ret, drop_w,
                   rpc, rret, accepted, flushed, received>>
    /\ UNCHANGED <<dest, to_wake, poolVars>>

\* Faulty variant of enqueue_scan: the loop runs over the list twice.
enqueue_scan_two_passes ==
    /\ spc = "scan"
    /\ enq_i < 2 * Len(workers)
    /\ LET i2 == (enq_i + next_worker) % Len(workers)
           old == workers[i2 + 1].state
       IN  /\ workers' = SetState(i2 + 1, compare_and_swap(old, RS_WAITING, RS_PENDING))
           /\ seen' = seen \cup {old}
           /\ CASE old = RS_WAITING ->
                     /\ target_worker' = i2
                     /\ spc' = "publish"
                     /\ enq_i' = enq_i
                [] old \in {RS_PENDING, RS_RUNNING} ->
                     /\ enq_i' = enq_i + 1
                     /\ UNCHANGED <<target_worker, spc>>
                [] OTHER ->
                     /\ spc' = "panicked"
                     /\ UNCHANGED <<target_worker, enq_i>>
    /\ UNCHANGED <<next_worker, workers_to_unblock, eventfd, enq_x, enq_ret, drop_w,
                   rpc, rret, accepted, flushed, received>>
    /\ UNCHANGED <<dest, to_wake, poolVars>>

\* One iteration of enqueue's for loop: the compare_and_swap on workers[i2].state.
enqueue_scan ==
    /\ spc = "scan"
    /\ enq_i < Len(workers)
    /\ LET i2 == (enq_i + next_worker) % Len(workers)
           old == workers[i2 + 1].state
       IN  /\ workers' = SetState(i2 + 1, compare_and_swap(old, RS_WAITING, RS_PENDING))
           /\ seen' = seen \cup {old}
           /\ CASE old = RS_WAITING ->
                     /\ target_worker' = i2
                     /\ spc' = "publish"
                     /\ enq_i' = enq_i
                [] old \in {RS_PENDING, RS_RUNNING} ->
                     /\ enq_i' = enq_i + 1
                     /\ UNCHANGED <<target_worker, spc>>
                [] OTHER ->
                     /\ spc' = "panicked"
                     /\ UNCHANGED <<target_worker, enq_i>>
    /\ UNCHANGED <<next_worker, workers_to_unblock, eventfd, enq_x, enq_ret, drop_w,
                   rpc, rret, accepted, flushed, received>>
    /\ UNCHANGED <<dest, to_wake, poolVars>>

\* Faulty variant of enqueue_refuse: the loop gives up one iteration short.
enqueue_refuse_early ==
    /\ spc = "scan"
    /\ enq_i >= Len(workers) - 1
    /\ enq_ret' = RetSome(enq_x)
    /\ spc' = "idle"
    /\ UNCHANGED <<workers, next_worker, workers_to_unblock, eventfd, enq_i, enq_x,
                   target_worker, drop_w, rpc, rret, seen, accepted, flushed, received>>
    /\ UNCHANGED <<dest, to_wake, poolVars>>

\* The loop ended with target_worker = None: the Box goes back to the caller.
enqueue_refuse ==
    /\ spc = "scan"
    /\ enq_i = Len(workers)
    /\ enq_ret' = RetSome(enq_x)
    /\ spc' = "idle"
    /\ UNCHANGED <<workers, next_worker, workers_to_unblock, eventfd, enq_i, enq_x,
                   target_worker, drop_w, rpc, rret, seen, accepted, flushed, received>>
    /\ UNCHANGED <<dest, to_wake, poolVars>>

\* Faulty variant of enqueue_publish: the cursor is left on the chosen worker (i, not i + 1).
enqueue_publish_stale_cursor ==
    /\ spc = "publish"
    /\ LET ptr == workers[target_worker + 1].slot
       IN  /\ workers' = SetSlot(target_worker + 1, enq_x)
           /\ IF ptr = NULL
              THEN /\ next_worker' = target_worker % Len(workers)
                   /\ workers_to_unblock' = workers_to_unblock + 1
                   /\ enq_ret' = RetNone
                   /\ accepted' = accepted \cup {enq_x}
                   /\ spc' = "idle"
              ELSE /\ spc' = "panicked"
                   /\ UNCHANGED <<next_worker, workers_to_unblock, enq_ret, accepted>>
    /\ UNCHANGED <<eventfd, enq_i, enq_x, target_worker, drop_w, rpc, rret, seen,
                   flushed, received>>
    /\ dest' = [dest EXCEPT ![enq_x] = target_worker + 1]
    /\ UNCHANGED <<to_wake, poolVars>>

\* Faulty variant of enqueue_publish: the cursor is advanced without the remainder.
enqueue_publish_no_wrap ==
    /\ spc = "publish"
    /\ LET ptr == workers[target_worker + 1].slot
       IN  /\ workers' = SetSlot(target_worker + 1, enq_x)
           /\ IF ptr = NULL
              THEN /\ next_worker' = target_worker + 1
                   /\ workers_to_unblock' = workers_to_unblock + 1
                   /\ enq_ret' = RetNone
                   /\ accepted' = accepted \cup {enq_x}
                   /\ spc' = "idle"
              ELSE /\ spc' = "panicked"
                   /\ UNCHANGED <<next_worker, workers_to_unblock, enq_ret, accepted>>
    /\ UNCHANGED <<eventfd, enq_i, enq_x, target_worker, drop_w, rpc, rret, seen,
                   flushed, received>>
    /\ dest' = [dest EXCEPT ![enq_x] = target_worker + 1]
    /\ UNCHANGED <<to_wake, poolVars>>

\* target_worker = Some(i): slot.swap(Box::into_raw(x)), the assertion, the
\* cursor and the accumulator.
enqueue_publish ==
    /\ spc = "publish"
    /\ LET ptr == workers[target_worker + 1].slot
       IN  /\ workers' = SetSlot(target_worker + 1, enq_x)
           /\ IF ptr = NULL
              THEN /\ next_worker' = (target_worker + 1) % Len(workers)
                   /\ workers_to_unblock' = workers_to_unblock + 1
                   /\ enq_ret' = RetNone
                   /\ accepted' = accepted \cup {enq_x}
                   /\ spc' = "idle"
              ELSE /\ spc' = "panicked"
                   /\ UNCHANGED <<next_worker, workers_to_unblock, enq_ret, accepted>>
    /\ UNCHANGED <<eventfd, enq_i, enq_x, target_worker, drop_w, rpc, rret, seen,
                   flushed, received>>
    /\ dest' = [dest EXCEPT ![enq_x] = target_worker + 1]
    /\ UNCHANGED <<to_wake, poolVars>>

\* Drop for Sender is entered.
drop_call ==
    /\ spc = "idle"
    /\ spc' = "drop"
    /\ drop_w' = 0
    /\ UNCHANGED <<workers, next_worker, workers_to_unblock, eventfd, enq_i, enq_x,
                   target_worker, enq_ret, rpc, rret, seen, accepted, flushed, received>>
    /\ UNCHANGED <<dest, to_wake, poolVars>>

\* One iteration of drop's loop: w.state.store(RS_ORPHANED).
drop_store ==
    /\ spc = "drop"
    /\ drop_w < Len(workers)
    /\ workers' = SetState(drop_w + 1, RS_ORPHANED)
    /\ drop_w' = drop_w + 1
    /\ UNCHANGED <<next_worker, workers_to_unblock, eventfd, spc, enq_i, enq_x,
                   target_worker, enq_ret, rpc, rret, seen, accepted, flushed, received>>
    /\ UNCHANGED <<dest, to_wake, poolVars>>

\* drop's write of 1 to the eventfd.
drop_write ==
    /\ spc = "drop"
    /\ drop_w = Len(workers)
    /\ eventfd' = eventfd + 1
    /\ spc' = "dropped"
    /\ UNCHANGED <<workers, next_worker, workers_to_unblock, enq_i, enq_x,
                   target_worker, enq_ret, drop_w, rpc, rret, seen, accepted, flushed,
                   received>>
    /\ UNCHANGED <<dest, to_wake, poolVars>>

----------------------------------------------------------------------------
\* Consumer threads.

\* Faulty variant of recv_call: the state is stored with a plain store and never examined.
recv_call_unchecked(r) ==
    /\ rpc[r] = "running"
    /\ workers' = SetState(r, RS_WAITING)
    /\ rpc' = [rpc EXCEPT ![r] = "poll"]
    /\ rret' = [rret EXCEPT ![r] = NoRet]
    /\ UNCHANGED <<senderVars, eventfd, received>>
    /\ UNCHANGED <<dest, to_wake, poolVars>>

\* Receiver::recv is entered: compare_and_swap(RS_RUNNING, RS_WAITING).
recv_call(r) ==
    /\ rpc[r] = "running"
    /\ LET old == workers[r].state
       IN  /\ workers' = SetState(r, compare_and_swap(old, RS_RUNNING, RS_WAITING))
           /\ CASE old = RS_RUNNING ->
                     /\ rpc' = [rpc EXCEPT ![r] = "poll"]
                     /\ rret' = [rret EXCEPT ![r] = NoRet]
                [] old = RS_ORPHANED ->
                     /\ rret' = [rret EXCEPT ![r] = RetOrphaned]
                     /\ UNCHANGED rpc
                [] OTHER ->
                     /\ rpc' = [rpc EXCEPT ![r] = "panicked"]
                     /\ UNCHANGED rret
    /\ UNCHANGED <<senderVars, eventfd, received>>
    /\ UNCHANGED <<dest, to_wake, poolVars>>

\* poll(&mut pollfds, -1) returns: the eventfd is readable (counter > 0).
recv_poll(r) ==
    /\ rpc[r] = "poll"
    /\ eventfd > 0
    /\ rpc' = [rpc EXCEPT ![r] = "check"]
    /\ UNCHANGED <<senderVars, workers, eventfd, rret, received>>
    /\ to_wake' = to_wake \ {r}
    /\ UNCHANGED <<dest, poolVars>>

\* Faulty variant of recv_check: a wake that finds RS_WAITING consumes a credit
\* (a decrementing wait that does not give the credit back).
recv_check_stolen_read(r) ==
    /\ rpc[r] = "check"
    /\ LET old == workers[r].state
       IN  /\ workers' = SetState(r, compare_and_swap(old, RS_PENDING, RS_RUNNING))
           /\ CASE old = RS_PENDING ->
                     /\ rpc' = [rpc EXCEPT ![r] = "read"]
                     /\ UNCHANGED <<rret, eventfd>>
                [] old = RS_WAITING ->
                     /\ rpc' = [rpc EXCEPT ![r] = "poll"]
                     /\ eventfd' = IF eventfd > 0 THEN eventfd - 1 ELSE eventfd
                     /\ UNCHANGED rret
                [] old = RS_ORPHANED ->
                     /\ rpc' = [rpc EXCEPT ![r] = "running"]
                     /\ rret' = [rret EXCEPT ![r] = RetOrphaned]
                     /\ UNCHANGED eventfd
                [] OTHER ->
                     /\ rpc' = [rpc EXCEPT ![r] = "panicked"]
                     /\ UNCHANGED <<rret, eventfd>>
    /\ UNCHANGED <<senderVars, received>>
    /\ UNCHANGED <<dest, to_wake, poolVars>>

\* Faulty variant of recv_check: the state is examined but RS_RUNNING is not stored
\* (a load instead of the compare_and_swap).
recv_check_load(r) ==
    /\ rpc[r] = "check"
    /\ LET old == workers[r].state
       IN  /\ UNCHANGED workers
           /\ CASE old = RS_PENDING ->
                     /\ rpc' = [rpc EXCEPT ![r] = "read"]
                     /\ UNCHANGED rret
                [] old = RS_WAITING ->
                     /\ rpc' = [rpc EXCEPT ![r] = "poll"]
                     /\ UNCHANGED rret
                [] old = RS_ORPHANED ->
                     /\ rpc' = [rpc EXCEPT ![r] = "running"]
                     /\ rret' = [rret EXCEPT ![r] = RetOrphaned]
                [] OTHER ->
                     /\ rpc' = [rpc EXCEPT ![r] = "panicked"]
                     /\ UNCHANGED rret
    /\ UNCHANGED <<senderVars, eventfd, received>>
    /\ UNCHANGED <<dest, to_wake, poolVars>>

\* Faulty variant of recv_check: the RS_WAITING arm is grouped with RS_ORPHANED.
recv_check_waiting_orphaned(r) ==
    /\ rpc[r] = "check"
    /\ LET old == workers[r].state
       IN  /\ workers' = SetState(r, compare_and_swap(old, RS_PENDING, RS_RUNNING))
           /\ CASE old = RS_PENDING ->
                     /\ rpc' = [rpc EXCEPT ![r] = "read"]
                     /\ UNCHANGED rret
                [] old \in {RS_WAITING, RS_ORPHANED} ->
                     /\ rpc' = [rpc EXCEPT ![r] = "running"]
                     /\ rret' = [rret EXCEPT ![r] = RetOrphaned]
                [] OTHER ->
                     /\ rpc' = [rpc EXCEPT ![r] = "panicked"]
                     /\ UNCHANGED rret
    /\ UNCHANGED <<senderVars, eventfd, received>>
    /\ UNCHANGED <<dest, to_wake, poolVars>>

\* compare_and_swap(RS_PENDING, RS_RUNNING) after the poll.
recv_check(r) ==
    /\ rpc[r] = "check"
    /\ LET old == workers[r].state
       IN  /\ workers' = SetState(r, compare_and_swap(old, RS_PENDING, RS_RUNNING))
           /\ CASE old = RS_PENDING ->
                     /\ rpc' = [rpc EXCEPT ![r] = "read"]
                     /\ UNCHANGED rret
                [] old = RS_WAITING ->
                     /\ rpc' = [rpc EXCEPT ![r] = "poll"]
                     /\ UNCHANGED rret
                [] old = RS_ORPHANED ->
                     /\ rpc' = [rpc EXCEPT ![r] = "running"]
                     /\ rret' = [rret EXCEPT ![r] = RetOrphaned]
                [] OTHER ->
                     /\ rpc' = [rpc EXCEPT ![r] = "panicked"]
                     /\ UNCHANGED rret
    /\ UNCHANGED <<senderVars, eventfd, received>>
    /\ UNCHANGED <<dest, to_wake, poolVars>>

\* read(self.eventfd): blocks while the counter is 0, then decrements it by 1.
recv_read(r) ==
    /\ rpc[r] = "read"
    /\ eventfd > 0
    /\ eventfd' = eventfd - 1
    /\ rpc' = [rpc EXCEPT ![r] = "take"]
    /\ UNCHANGED <<senderVars, workers, rret, received>>
    /\ UNCHANGED <<dest, to_wake, poolVars>>

\* Faulty variant of recv_take: the slot is loaded, not swapped with null.
recv_take_keep(r) ==
    /\ rpc[r] = "take"
    /\ LET ptr == workers[r].slot
       IN  /\ UNCHANGED workers
           /\ IF ptr # NULL
              THEN /\ rpc' = [rpc EXCEPT ![r] = "running"]
                   /\ rret' = [rret EXCEPT ![r] = RetOk(ptr)]
                   /\ received' = [received EXCEPT ![ptr] = @ + 1]
              ELSE /\ rpc' = [rpc EXCEPT ![r] = "panicked"]
                   /\ UNCHANGED <<rret, received>>
    /\ UNCHANGED <<senderVars, eventfd>>
    /\ UNCHANGED <<dest, to_wake, poolVars>>

\* slot.swap(ptr::null_mut()), the assertion and the return of the Box.
recv_take(r) ==
    /\ rpc[r] = "take"
    /\ LET ptr == workers[r].slot
       IN  /\ workers' = SetSlot(r, NULL)
           /\ IF ptr # NULL
              THEN /\ rpc' = [rpc EXCEPT ![r] = "running"]
                   /\ rret' = [rret EXCEPT ![r] = RetOk(ptr)]
                   /\ received' = [received EXCEPT ![ptr] = @ + 1]
              ELSE /\ rpc' = [rpc EXCEPT ![r] = "panicked"]
                   /\ UNCHANGED <<rret, received>>
    /\ UNCHANGED <<senderVars, eventfd>>
    /\ UNCHANGED <<dest, to_wake, poolVars>>

----------------------------------------------------------------------------
Next ==
    \/ mk_receiver
    \/ wake_all
    \/ enqueue_call
    \/ enqueue_scan
    \/ enqueue_refuse
    \/ enqueue_publish
    \/ drop_call
    \/ drop_store
    \/ drop_write
    \/ \E r \in Receivers : recv_call(r)
    \/ \E r \in Receivers : recv_poll(r)
    \/ \E r \in Receivers : recv_check(r)
    \/ \E r \in Receivers : recv_read(r)
    \/ \E r \in Receivers : recv_take(r)

Spec == Init /\ [][Next]_vars

----------------------------------------------------------------------------
\* The rotation scenario (benches/burst_chan.rs): every receiver is created
\* before the first enqueue, and a burst (the enqueues up to the next wake_all)
\* is started only when every receiver is waiting in recv.

AllIdle == \A r \in Receivers : workers[r].state = RS_WAITING

rr_mk_receiver == mk_receiver /\ enq_x = 0

rr_enqueue_call == enqueue_call /\ (workers_to_unblock = 0 => AllIdle)

NextRR ==
    \/ rr_mk_receiver
    \/ wake_all
    \/ rr_enqueue_call
    \/ enqueue_scan
    \/ enqueue_refuse
    \/ enqueue_publish
    \/ drop_call
    \/ drop_store
    \/ drop_write
    \/ \E r \in Receivers : recv_call(r)
    \/ \E r \in Receivers : recv_poll(r)
    \/ \E r \in Receivers : recv_check(r)
    \/ \E r \in Receivers : recv_read(r)
    \/ \E r \in Receivers : recv_take(r)

SpecRR == Init /\ [][NextRR]_vars

----------------------------------------------------------------------------
TypeOK ==
    /\ Len(workers) <= MaxReceivers
    /\ \A r \in Receivers :
          /\ workers[r].state \in {RS_WAITING, RS_PENDING, RS_RUNNING, RS_ORPHANED}
          /\ workers[r].slot \in {NULL} \cup Payloads
    /\ eventfd \in Nat
    /\ workers_to_unblock \in Nat

----------------------------------------------------------------------------
\* Properties.

\* No consumer thread can take a step inside recv: each is outside recv, has
\* panicked, or is blocked in poll/read on a zero counter.
Quiet ==
    \A r \in Receivers :
        \/ rpc[r] \in {"running", "panicked"}
        \/ rpc[r] \in {"poll", "read"} /\ eventfd = 0

\* A step of the producer inside an enqueue call that does not arm a receiver:
\* the call itself, a failed compare_and_swap, or the return of Some(x).
RefusingStep ==
    \/ spc = "idle" /\ spc' = "scan"
    \/ spc = "scan" /\ enq_i' = enq_i + 1
    \/ spc = "scan" /\ spc' = "idle"

\* C1 (conservation): while the Sender is alive, once every accepted enqueue has
\* been followed by a wake_all and no receiver can move any more, every accepted
\* payload has been returned by exactly one recv and nothing else has.
C1_Conservation ==
    (spc = "idle" /\ workers_to_unblock = 0 /\ Quiet) =>
        /\ \A p \in flushed : received[p] = 1
        /\ \A p \in Payloads \ accepted : received[p] = 0

\* C2 (no duplication): no payload is returned by two recv calls.
C2_NoDuplication == \A p \in Payloads : received[p] <= 1

C2_Witness ==
    /\ spc = "dropped"
    /\ \E p, q \in Payloads : p # q /\ received[p] = 1 /\ received[q] = 1
    /\ \E r \in Receivers : rret[r].tag = "Ok" /\ rpc[r] = "running"

\* C3 (no loss without refusal): a payload whose enqueue returned None and was
\* followed by wake_all has been received once nothing can move any more, also
\* after the Sender has been dropped.
C3_NoLossWithoutRefusal ==
    (spc \in {"idle", "dropped"} /\ workers_to_unblock = 0 /\ Quiet) =>
        \A p \in flushed : received[p] = 1

\* C4 (orphan progress): once the Sender's drop has completed, no receiver is
\* blocked inside recv (its poll or read can return).
C4_OrphanProgress ==
    spc = "dropped" =>
        \A r \in Receivers : rpc[r] \in {"poll", "read"} => eventfd > 0

\* C5: a recv entered with the state ORPHANED returns Err(Orphaned) at the first
\* state check: the thread never reaches the wait or the read, the state stays
\* ORPHANED, the counter is not touched by the call, and this stays so for every
\* later call.
C5_OrphanedRecvReturnsAtEntry ==
    [][\A r \in Receivers :
          (rpc[r] = "running" /\ workers[r].state = RS_ORPHANED) =>
              /\ rpc'[r] = "running"
              /\ workers'[r] = workers[r]
              /\ rret'[r] \in {rret[r], RetOrphaned}
              /\ (rret'[r] # rret[r] => eventfd' = eventfd)]_vars

\* No credit has ever been written (no poll can have returned), drop is storing
\* ORPHANED, and a recv has returned Err(Orphaned): it did so at its entry check.
C5_Witness ==
    /\ spc = "drop"
    /\ flushed = {}
    /\ eventfd = 0
    /\ \E r \in Receivers :
          /\ rret[r] = RetOrphaned
          /\ rpc[r] = "running"
          /\ workers[r].state = RS_ORPHANED

\* C6: enqueue returns Some(x), with x its own argument, exactly when its scan
\* observed no receiver in RS_WAITING, and None exactly when it observed one.
C6_RefusedIffNoneWaiting ==
    (spc = "idle" /\ enq_ret # NoRet) =>
        /\ enq_ret.tag = "Some" <=> RS_WAITING \notin seen
        /\ enq_ret.tag = "None" <=> RS_WAITING \in seen
        /\ enq_ret.tag = "Some" => enq_ret.val = enq_x
        /\ Len(workers) = 0 => enq_ret.tag = "Some"

\* Refused with one receiver ARMED and the other BUSY.
C6_Witness ==
    /\ spc = "idle"
    /\ enq_ret = RetSome(enq_x)
    /\ Len(workers) = 2
    /\ seen = {RS_PENDING, RS_RUNNING}
    /\ workers[1].state = RS_PENDING
    /\ workers[2].state = RS_RUNNING

\* C7: the steps of an enqueue that does not arm a receiver change no receiver's
\* state or slot, nor next_worker, workers_to_unblock, the counter or any
\* consumer thread's position and result.
C7_RefusedEnqueueChangesNothing ==
    [][RefusingStep =>
          UNCHANGED <<workers, next_worker, workers_to_unblock, eventfd, rpc, rret>>]_vars

\* A refusal in the middle of an unflushed burst: the armed receiver is still
\* blocked in its poll.
C7_Witness ==
    /\ spc = "idle"
    /\ enq_ret = RetSome(enq_x)
    /\ workers_to_unblock = 1
    /\ next_worker = 1
    /\ eventfd = 0
    /\ \E r \in Receivers : workers[r].state = RS_PENDING /\ rpc[r] = "poll"

\* C8: the successful compare_and_swap of an enqueue changes exactly the chosen
\* receiver's state, from WAITING to PENDING; the publish that follows stores the
\* payload in that receiver's slot, sets next_worker to (i + 1) mod len, adds 1
\* to workers_to_unblock and returns None; neither step touches the counter, any
\* other receiver's state or slot, or any consumer thread.
C8_AcceptedEnqueueEffect ==
    [][/\ (spc = "scan" /\ spc' = "publish") =>
            /\ workers[target_worker' + 1].state = RS_WAITING
            /\ workers' = [workers EXCEPT ![target_worker' + 1].state = RS_PENDING]
            /\ UNCHANGED <<next_worker, workers_to_unblock, eventfd, rpc, rret>>
       /\ (spc = "publish" /\ spc' = "idle") =>
            /\ workers' = [workers EXCEPT ![target_worker + 1].slot = enq_x]
            /\ next_worker' = (target_worker + 1) % Len(workers)
            /\ workers_to_unblock' = workers_to_unblock + 1
            /\ enq_ret' = RetNone
            /\ UNCHANGED <<eventfd, rpc, rret>>]_vars

\* An accepted enqueue that armed the last receiver of the list: the cursor wrapped.
C8_Witness ==
    /\ spc = "idle"
    /\ enq_ret = RetNone
    /\ Len(workers) = 2
    /\ target_worker = 1
    /\ next_worker = 0
    /\ workers_to_unblock >= 1
    /\ workers[2].state = RS_PENDING
    /\ workers[2].slot = enq_x

\* C9: a payload is returned by recv only after a wake_all that followed the
\* enqueue which deposited it.
C9_RecvOnlyAfterWakeAll == \A p \in Payloads : received[p] > 0 => p \in flushed

\* C10 (no double-arm): a receiver becomes the target of an enqueue only when its
\* state is WAITING, and a non-empty slot changes only by its owner's take, which
\* empties it: enqueue never overwrites a payload.
C10_NoDoubleArm ==
    [][/\ (target_worker' # target_worker /\ target_worker' # -1) =>
            workers[target_worker' + 1].state = RS_WAITING
       /\ \A r \in Receivers :
            (workers[r].slot # NULL /\ workers'[r].slot # workers[r].slot) =>
                (workers'[r].slot = NULL /\ rpc[r] = "take")]_vars

\* The scan passed over an ARMED receiver holding its payload and armed another.
C10_Witness ==
    /\ spc = "idle"
    /\ enq_ret = RetNone
    /\ RS_PENDING \in seen
    /\ Len(workers) = 2
    /\ workers[1].state = RS_PENDING /\ workers[1].slot # NULL
    /\ workers[2].state = RS_PENDING /\ workers[2].slot = enq_x

\* Number of payloads enqueue has stored in receiver r's slot.
DispatchCount(r) == Cardinality({p \in Payloads : dest[p] = r})

\* C11: recv on r returns Ok(p) only for a payload p that enqueue stored in r's
\* own slot, and Err(Orphaned) only once the Sender's drop has begun.
C11_RecvReturnsOwnPayloadOrOrphaned ==
    \A r \in Receivers :
        /\ rret[r].tag = "Ok" => dest[rret[r].val] = r
        /\ rret[r].tag = "Err" => spc \in {"drop", "dropped"}

\* r returned its own payload while the other receiver's slot holds another one.
C11_Witness ==
    /\ Len(workers) = 2
    /\ \E r, q \in Receivers :
          /\ r # q
          /\ rret[r].tag = "Ok"
          /\ workers[q].slot # NULL
          /\ workers[q].slot # rret[r].val

C13_Overflow ==
    /\ [][/\ (spc = "scan" /\ spc' = "idle") => workers_to_unblock = Len(workers)
          /\ (spc = "publish" /\ spc' = "idle") => workers_to_unblock' <= Len(workers)]_vars
    /\ []((spc = "idle" /\ workers_to_unblock = 0 /\ Quiet) =>
            /\ \A p \in accepted : received[p] = 1
            /\ \A p \in Payloads \ accepted : received[p] = 0)

\* Two receivers, three enqueues in one burst: the third was handed back and the
\* first two were delivered.
C13_Witness ==
    /\ Len(workers) = 2
    /\ spc = "idle"
    /\ enq_ret = RetSome(3)
    /\ accepted = {1, 2}
    /\ received[1] = 1 /\ received[2] = 1 /\ received[3] = 0

\* C14: a wake_all adds exactly workers_to_unblock to the counter, resets
\* workers_to_unblock to 0, changes no receiver's state or slot, the cursor or
\* any consumer thread, and can always be taken when the producer is idle (it
\* never blocks).
C14_WakeAllEffect ==
    /\ [][(spc = "idle" /\ spc' = "idle" /\
            (eventfd' > eventfd \/ workers_to_unblock' # workers_to_unblock)) =>
              /\ eventfd' = eventfd + workers_to_unblock
              /\ workers_to_unblock' = 0
              /\ UNCHANGED <<workers, next_worker, rpc, rret>>]_vars
    /\ [](spc = "idle" => ENABLED wake_all)

\* One write carried two credits: both receivers were blocked on a zero counter
\* when it happened and the counter is now 2.
C14_Witness ==
    /\ spc = "idle"
    /\ eventfd = 2
    /\ workers_to_unblock = 0
    /\ flushed = {1, 2}
    /\ to_wake = {1, 2}

\* C15: a receiver that was blocked in its wait when wake_all wrote credits, and
\* whose wait has not returned since, can return from it (the counter is positive).
C15_WakeAllWakesAll == \A r \in to_wake : eventfd > 0

\* C16: every change of a receiver's state word is RUNNING->WAITING by its own
\* thread entering recv, WAITING->PENDING by enqueue's compare_and_swap,
\* PENDING->RUNNING by its own thread's claim, or WAITING/RUNNING/PENDING->
\* ORPHANED by drop.
C16_LegalTransitions ==
    [][\A r \in Receivers :
          workers'[r].state # workers[r].state =>
              \/ /\ workers[r].state = RS_RUNNING /\ workers'[r].state = RS_WAITING
                 /\ rpc[r] = "running" /\ rpc'[r] = "poll"
                 /\ UNCHANGED spc
              \/ /\ workers[r].state = RS_WAITING /\ workers'[r].state = RS_PENDING
                 /\ spc = "scan" /\ spc' = "publish" /\ target_worker' = r - 1
                 /\ UNCHANGED rpc
              \/ /\ workers[r].state = RS_PENDING /\ workers'[r].state = RS_RUNNING
                 /\ rpc[r] = "check" /\ rpc'[r] = "read"
                 /\ UNCHANGED spc
              \/ /\ workers[r].state \in {RS_WAITING, RS_RUNNING, RS_PENDING}
                 /\ workers'[r].state = RS_ORPHANED
                 /\ spc = "drop" /\ drop_w = r - 1
                 /\ UNCHANGED rpc]_vars

\* Drop overwrote an ARMED receiver (its payload is still in the slot) after
\* another receiver had gone through a whole delivery.
C16_Witness ==
    /\ \E r \in Receivers : workers[r].state = RS_ORPHANED /\ workers[r].slot # NULL
    /\ \E p \in Payloads : received[p] = 1

\* C17 (I2): a receiver whose state is PENDING has a non-empty slot.
C17_ArmedHasPayload ==
    \A r \in Receivers : workers[r].state = RS_PENDING => workers[r].slot # NULL

\* C18 (I1): a receiver whose state is WAITING has an empty slot.
C18_IdleHasEmptySlot ==
    \A r \in Receivers : workers[r].state = RS_WAITING => workers[r].slot = NULL

\* A receiver that has already been served once is waiting again.
C18_Witness ==
    \E r \in Receivers : \E p \in Payloads :
        /\ dest[p] = r
        /\ received[p] = 1
        /\ workers[r].state = RS_WAITING
        /\ rpc[r] = "poll"

RECURSIVE SumReceived(_)
SumReceived(n) == IF n = 0 THEN 0 ELSE received[n] + SumReceived(n - 1)

\* Credits written by wake_all: one for every accepted payload it flushed.
CreditsWritten == Cardinality(flushed)
\* Decrements: every read follows a successful claim and is followed by the take,
\* which returns the payload or panics.
CreditsConsumed ==
    SumReceived(MaxPayloads)
        + Cardinality({r \in Receivers : rpc[r] \in {"take", "panicked"}})
\* The credit written by drop.
CreditsOfDrop == IF spc = "dropped" THEN 1 ELSE 0

\* C19 (I3): the counter is the credits written by wake_all, minus the decrements
\* by receivers that had claimed, plus the credit written by drop; never negative.
C19_CreditAccounting ==
    /\ eventfd = CreditsWritten - CreditsConsumed + CreditsOfDrop
    /\ eventfd >= 0

\* After two deliveries and the drop the only credit left is the one drop wrote.
C19_Witness ==
    /\ spc = "dropped"
    /\ CreditsWritten = 2
    /\ CreditsConsumed = 2
    /\ eventfd = 1

\* The flush the producer owes after an accepted enqueue ("You must call
\* wake_all after calling enqueue").
flush == wake_all /\ workers_to_unblock > 0

\* Fair scheduling: a thread that is inside a call keeps running, a wait whose
\* counter is positive returns, and the producer performs the flush it owes.
Fairness ==
    /\ WF_vars(flush)
    /\ WF_vars(enqueue_scan)
    /\ WF_vars(enqueue_refuse)
    /\ WF_vars(enqueue_publish)
    /\ WF_vars(drop_store)
    /\ WF_vars(drop_write)
    /\ \A r \in 1..MaxReceivers :
          /\ WF_vars(r \in Receivers /\ recv_poll(r))
          /\ WF_vars(r \in Receivers /\ recv_check(r))
          /\ WF_vars(r \in Receivers /\ recv_read(r))
          /\ WF_vars(r \in Receivers /\ recv_take(r))

FairSpec == Init /\ [][Next]_vars /\ Fairness

\* C20: under fair scheduling a PENDING receiver waiting in recv whose payload
\* has been flushed by wake_all eventually performs its PENDING->RUNNING claim.
C20_ArmedEventuallyClaims ==
    \A r \in 1..MaxReceivers :
        (/\ r \in Receivers
         /\ workers[r].state = RS_PENDING
         /\ rpc[r] = "poll"
         /\ workers[r].slot \in flushed)
            ~> (r \in Receivers /\ workers[r].state = RS_RUNNING)

\* Receivers that are PENDING and whose credit has not been written to the
\* eventfd: the payload stored for them (if it is stored yet) is not flushed.
ArmedUnflushed ==
    {r \in Receivers : workers[r].state = RS_PENDING /\ workers[r].slot \notin flushed}

\* C21 (I4), as stated: at every instant workers_to_unblock is the number of
\* enqueues accepted since the last wake_all and bounds the number of PENDING
\* receivers whose credit has not been written.
C21_PendingCreditsBound ==
    /\ workers_to_unblock = Cardinality(accepted \ flushed)
    /\ Cardinality(ArmedUnflushed) <= workers_to_unblock

\* C21, amended: the same, except while the producer is between enqueue's
\* compare_and_swap and its increment of workers_to_unblock.
C21_PendingCreditsBoundBetweenSteps ==
    /\ workers_to_unblock = Cardinality(accepted \ flushed)
    /\ spc # "publish" => Cardinality(ArmedUnflushed) <= workers_to_unblock

\* Two enqueues accepted and not flushed, both receivers still PENDING.
C21_Witness ==
    /\ spc = "idle"
    /\ workers_to_unblock = 2
    /\ Cardinality(ArmedUnflushed) = 2

----------------------------------------------------------------------------
\* The environment of the consumer threads: a signal may interrupt the blocking
\* wait, and the owner of a Receiver may drop the handle between recv calls.

\* poll(&mut pollfds, -1) fails with EINTR: unwrap() panics and the thread
\* unwinds out of recv (dropping its Receiver) with the state word as it is.
recv_eintr(r) ==
    /\ rpc[r] = "poll"
    /\ rpc' = [rpc EXCEPT ![r] = "panicked"]
    /\ to_wake' = to_wake \ {r}
    /\ UNCHANGED <<senderVars, workers, eventfd, rret, received, dest, poolVars>>

\* The Receiver handle is dropped outside recv.  Receiver has no Drop impl: its
\* Arc<Worker> is released, the Sender's Arc keeps the Worker in the list.
receiver_drop(r) ==
    /\ rpc[r] = "running"
    /\ rpc' = [rpc EXCEPT ![r] = "gone"]
    /\ UNCHANGED <<senderVars, workers, eventfd, rret, received, dest, to_wake, poolVars>>

NextEnv ==
    \/ Next
    \/ \E r \in Receivers : recv_eintr(r)
    \/ \E r \in Receivers : receiver_drop(r)

SpecEnv == Init /\ [][NextEnv]_vars

\* The Receiver of r no longer exists: dropped by its owner, or dropped by the
\* unwinding of its panicked thread.
Dropped(r) == rpc[r] \in {"gone", "panicked"}

\* C22, as stated: a Receiver dropped while its Sender exists is still a dispatch
\* target: enqueue can select it (RS_WAITING) or has selected it (RS_PENDING).
C22_DroppedReceiverSelectable ==
    \A r \in Receivers :
        (rpc[r] = "gone" /\ spc \notin {"drop", "dropped"}) =>
            workers[r].state \in {RS_WAITING, RS_PENDING}

\* C22, amended: a dropped Receiver stays in the list.  Dropped by its owner
\* (outside recv) its state is RUNNING with an empty slot, or ORPHANED, so
\* enqueue never selects it.  A Receiver dropped in any way that is PENDING
\* stays PENDING until the Sender's drop, and a payload in a dropped Receiver's
\* slot has never been delivered.
C22_DroppedReceiverBusyUnlessUnwound ==
    /\ [][/\ Len(workers') >= Len(workers)
          /\ \A r \in Receivers :
                Dropped(r) =>
                    /\ rpc'[r] = rpc[r]
                    /\ workers[r].state = RS_PENDING =>
                          \/ workers'[r].state = RS_PENDING
                          \/ workers'[r].state = RS_ORPHANED /\ spc = "drop"]_vars
    /\ [](\A r \in Receivers :
            /\ rpc[r] = "gone" =>
                  \/ workers[r].state = RS_RUNNING /\ workers[r].slot = NULL
                  \/ workers[r].state = RS_ORPHANED
            /\ (Dropped(r) /\ workers[r].slot # NULL) => received[workers[r].slot] = 0)

\* Receiver 1 was dropped by its owner and is skipped as busy; receiver 2 unwound
\* inside the wait, was armed with payload 1 and keeps it; payload 2 was refused.
C22_Witness ==
    /\ Len(workers) = 2
    /\ spc = "idle"
    /\ rpc[1] = "gone" /\ workers[1].state = RS_RUNNING
    /\ rpc[2] = "panicked" /\ workers[2].state = RS_PENDING /\ workers[2].slot = 1
    /\ 1 \in flushed
    /\ enq_ret = RetSome(2)

\* C23: a receiver in the blocking wait leaves it only when the wait returns
\* because the counter is positive: an interruption by a signal neither makes
\* recv return nor aborts it.
C23_EintrRetried ==
    [][\A r \in Receivers :
          rpc[r] = "poll" =>
              \/ rpc'[r] = "poll"
              \/ rpc'[r] = "check" /\ eventfd > 0 /\ UNCHANGED <<workers, eventfd>>]_vars

\* C24: mk_receiver can be taken whenever the producer is between operations;
\* it appends one receiver with state RUNNING and an empty slot and changes no
\* existing receiver, nor next_worker, workers_to_unblock or the counter; a
\* receiver that has never entered recv is RUNNING with an empty slot (it has
\* not been armed).
C24_MkReceiverFrame ==
    /\ [][Len(workers') # Len(workers) =>
              /\ workers' = Append(workers, [state |-> RS_RUNNING, slot |-> NULL])
              /\ UNCHANGED <<next_worker, workers_to_unblock, eventfd, spc>>
              /\ \A r \in Receivers : rpc'[r] = rpc[r] /\ rret'[r] = rret[r]]_vars
    /\ []((spc = "idle" /\ Len(workers) < MaxReceivers) => ENABLED mk_receiver)
    /\ [](\A r \in Receivers :
            (rpc[r] = "running" /\ rret[r] = NoRet) =>
                /\ workers[r].state \in {RS_RUNNING, RS_ORPHANED}
                /\ workers[r].slot = NULL
                /\ \A p \in Payloads : dest[p] # r)

\* Receiver 2 was created mid-burst: payload 1 was accepted while receiver 1 was
\* the only one (the cursor wrapped to 0), its credit is still pending, and
\* receiver 2 has not entered recv.
C24_Witness ==
    /\ Len(workers) = 2
    /\ spc = "idle"
    /\ accepted = {1} /\ enq_x = 1
    /\ next_worker = 0
    /\ workers_to_unblock = 1
    /\ workers[1].state = RS_PENDING
    /\ rpc[2] = "running" /\ rret[2] = NoRet /\ workers[2].state = RS_RUNNING

----------------------------------------------------------------------------
\* BurstPool (src/src/lib.rs).  threads[t] is the pair (JoinHandle, mpsc::Sender)
\* of thread t together with the thread it stands for:
\*   queue  the values in its channel,
\*   tx     the mpsc::Sender still exists,
\*   token  the park token of the thread (set by unpark, consumed by park),
\*   pc     "try" (about to call try_recv), "consume" (in the closure),
\*          "park" (in thread::park) or "exited",
\*   cur    the value the closure is running with (0: none).

Pool == 1..Len(threads)

SetThread(t, field, v) == [threads EXCEPT ![t] = [@ EXCEPT ![field] = v]]

\* BurstPool::spawn: a channel and a thread that starts at the top of its loop.
spawn ==
    /\ ppc = "idle"
    /\ Len(threads) < MaxThreads
    /\ threads' = Append(threads, [queue |-> << >>, tx |-> TRUE, token |-> FALSE,
                                   pc |-> "try", cur |-> 0])
    /\ UNCHANGED <<next_thread, ppc, send_x, pool_drop_i, sent_to, consumed>>
    /\ UNCHANGED chanVars

\* BurstPool::send on a pool without threads: self.threads[self.next_thread]
\* is out of bounds and panics.
send_empty ==
    /\ ppc = "idle"
    /\ Len(threads) = 0
    /\ send_x < MaxValues
    /\ ppc' = "panicked"
    /\ UNCHANGED <<threads, next_thread, send_x, pool_drop_i, sent_to, consumed>>
    /\ UNCHANGED chanVars

\* BurstPool::send, first half: tx.send(x).unwrap() on the channel of the
\* thread at next_thread.  send fails (and unwrap panics) only when the
\* receiving end is gone, that is when the thread has exited.
send_push ==
    /\ ppc = "idle"
    /\ Len(threads) > 0
    /\ send_x < MaxValues
    /\ send_x' = send_x + 1
    /\ LET t == next_thread + 1
       IN  IF threads[t].pc = "exited"
           THEN /\ ppc' = "panicked"
                /\ UNCHANGED <<threads, sent_to>>
           ELSE /\ threads' = SetThread(t, "queue", Append(threads[t].queue, send_x + 1))
                /\ sent_to' = [sent_to EXCEPT ![send_x + 1] = t]
                /\ ppc' = "unpark"
    /\ UNCHANGED <<next_thread, pool_drop_i, consumed>>
    /\ UNCHANGED chanVars

\* Faulty variant of send_unpark: the thread is not unparked.
send_unpark_missing ==
    /\ ppc = "unpark"
    /\ next_thread' = (next_thread + 1) % Len(threads)
    /\ ppc' = "idle"
    /\ UNCHANGED <<threads, send_x, pool_drop_i, sent_to, consumed>>
    /\ UNCHANGED chanVars

\* BurstPool::send, second half: handle.thread().unpark() and the advance of
\* next_thread.
send_unpark ==
    /\ ppc = "unpark"
    /\ threads' = SetThread(next_thread + 1, "token", TRUE)
    /\ next_thread' = (next_thread + 1) % Len(threads)
    /\ ppc' = "idle"
    /\ UNCHANGED <<send_x, pool_drop_i, sent_to, consumed>>
    /\ UNCHANGED chanVars

\* Faulty variant of worker_try_recv: a disconnected channel ends the thread
\* even when values are still queued.
worker_try_recv_disconnect_first(t) ==
    /\ threads[t].pc = "try"
    /\ threads' =
          IF ~threads[t].tx
          THEN SetThread(t, "pc", "exited")
          ELSE IF threads[t].queue # << >>
          THEN [threads EXCEPT ![t] = [@ EXCEPT !.cur = Head(threads[t].queue),
                                                !.queue = Tail(threads[t].queue),
                                                !.pc = "consume"]]
          ELSE SetThread(t, "pc", "park")
    /\ UNCHANGED <<next_thread, ppc, send_x, pool_drop_i, sent_to, consumed>>
    /\ UNCHANGED chanVars

\* The thread's rx.try_recv(): Ok(x), Err(Empty) or Err(Disconnected).  Queued
\* values are returned before Disconnected is reported.
worker_try_recv(t) ==
    /\ threads[t].pc = "try"
    /\ threads' =
          IF threads[t].queue # << >>
          THEN [threads EXCEPT ![t] = [@ EXCEPT !.cur = Head(threads[t].queue),
                                                !.queue = Tail(threads[t].queue),
                                                !.pc = "consume"]]
          ELSE IF threads[t].tx
          THEN SetThread(t, "pc", "park")
          ELSE SetThread(t, "pc", "exited")
    /\ UNCHANGED <<next_thread, ppc, send_x, pool_drop_i, sent_to, consumed>>
    /\ UNCHANGED chanVars

\* consume(x) runs and returns.
worker_consume(t) ==
    /\ threads[t].pc = "consume"
    /\ consumed' = [consumed EXCEPT ![threads[t].cur][t] = @ + 1]
    /\ threads' = [threads EXCEPT ![t] = [@ EXCEPT !.cur = 0, !.pc = "try"]]
    /\ UNCHANGED <<next_thread, ppc, send_x, pool_drop_i, sent_to>>
    /\ UNCHANGED chanVars

\* thread::park() returns because the token is set, and consumes it.
worker_park(t) ==
    /\ threads[t].pc = "park"
    /\ threads[t].token
    /\ threads' = [threads EXCEPT ![t] = [@ EXCEPT !.token = FALSE, !.pc = "try"]]
    /\ UNCHANGED <<next_thread, ppc, send_x, pool_drop_i, sent_to, consumed>>
    /\ UNCHANGED chanVars

\* thread::park() returns spuriously ("May unblock spuriously").
worker_spurious(t) ==
    /\ threads[t].pc = "park"
    /\ ~threads[t].token
    /\ threads' = SetThread(t, "pc", "try")
    /\ UNCHANGED <<next_thread, ppc, send_x, pool_drop_i, sent_to, consumed>>
    /\ UNCHANGED chanVars

\* Drop for BurstPool is entered: self.threads.drain(..).
pool_drop_call ==
    /\ ppc = "idle"
    /\ pool_drop_i' = 0
    /\ ppc' = IF Len(threads) = 0 THEN "dropped" ELSE "drop_sender"
    /\ UNCHANGED <<threads, next_thread, send_x, sent_to, consumed>>
    /\ UNCHANGED chanVars

\* ::std::mem::drop(sender)
pool_drop_sender ==
    /\ ppc = "drop_sender"
    /\ threads' = SetThread(pool_drop_i + 1, "tx", FALSE)
    /\ ppc' = "drop_unpark"
    /\ UNCHANGED <<next_thread, send_x, pool_drop_i, sent_to, consumed>>
    /\ UNCHANGED chanVars

\* handle.thread().unpark()
pool_drop_unpark ==
    /\ ppc = "drop_unpark"
    /\ threads' = SetThread(pool_drop_i + 1, "token", TRUE)
    /\ ppc' = "drop_join"
    /\ UNCHANGED <<next_thread, send_x, pool_drop_i, sent_to, consumed>>
    /\ UNCHANGED chanVars

\* handle.join().unwrap() returns once the thread has exited; then the next
\* element of the drain, or the end of drop.
pool_drop_join ==
    /\ ppc = "drop_join"
    /\ threads[pool_drop_i + 1].pc = "exited"
    /\ pool_drop_i' = pool_drop_i + 1
    /\ ppc' = IF pool_drop_i + 1 = Len(threads) THEN "dropped" ELSE "drop_sender"
    /\ UNCHANGED <<threads, next_thread, send_x, sent_to, consumed>>
    /\ UNCHANGED chanVars

NextPool ==
    \/ spawn
    \/ send_empty
    \/ send_push
    \/ send_unpark
    \/ pool_drop_call
    \/ pool_drop_sender
    \/ pool_drop_unpark
    \/ pool_drop_join
    \/ \E t \in Pool : worker_try_recv(t)
    \/ \E t \in Pool : worker_consume(t)
    \/ \E t \in Pool : worker_park(t)
    \/ \E t \in Pool : worker_spurious(t)

SpecPool == Init /\ [][NextPool]_vars

\* Fair scheduling of the pool: every thread that can run does (a park whose
\* token is set returns; a spurious return is never owed), and the owner of
\* the pool finishes the send or drop it is in.
FairnessPool ==
    /\ WF_vars(send_unpark)
    /\ WF_vars(pool_drop_sender)
    /\ WF_vars(pool_drop_unpark)
    /\ WF_vars(pool_drop_join)
    /\ \A t \in 1..MaxThreads :
          /\ WF_vars(t \in Pool /\ worker_try_recv(t))
          /\ WF_vars(t \in Pool /\ worker_consume(t))
          /\ WF_vars(t \in Pool /\ worker_park(t))

FairSpecPool == Init /\ [][NextPool]_vars /\ FairnessPool

TypeOKPool ==
    /\ Len(threads) <= MaxThreads
    /\ next_thread \in 0..MaxThreads
    /\ \A t \in Pool :
          /\ threads[t].pc \in {"try", "consume", "park", "exited"}
          /\ threads[t].cur \in {0} \cup Values

\* The owner of the pool is inside drop.
InPoolDrop == ppc \in {"drop_sender", "drop_unpark", "drop_join"}

\* C25: send pushes the value on the queue of the thread at next_thread, unparks
\* that thread and advances next_thread round-robin; a value is passed only to
\* the closure of the thread it was sent to, at most once, and under fair
\* scheduling exactly once; a thread parked with a value in its queue leaves
\* the park.
C25_SendRoundRobinConsumedOnce ==
    /\ [][(ppc = "idle" /\ ppc' = "unpark") =>
              LET t == next_thread + 1
              IN  /\ sent_to'[send_x'] = t
                  /\ threads'[t].queue = Append(threads[t].queue, send_x')]_vars
    /\ [][(ppc = "unpark" /\ ppc' = "idle") =>
              /\ threads'[next_thread + 1].token
              /\ next_thread' = (next_thread + 1) % Len(threads)]_vars
    /\ [](\A x \in Values : \A t \in 1..MaxThreads :
            consumed[x][t] <= (IF sent_to[x] = t THEN 1 ELSE 0))
    /\ \A x \in Values :
          (sent_to[x] # 0) ~> (\E t \in 1..MaxThreads : sent_to[x] = t /\ consumed[x][t] = 1)
    /\ \A t \in 1..MaxThreads :
          (t \in Pool /\ threads[t].pc = "park" /\ threads[t].queue # << >>)
              ~> (t \in Pool /\ threads[t].pc # "park")

\* Values 1 and 2 went to threads 1 and 2; value 3 has been pushed on the queue
\* of thread 1, which is parked without a token: the unpark is still to come.
C25_Witness ==
    /\ Len(threads) = 2
    /\ consumed[1][1] = 1
    /\ consumed[2][2] = 1
    /\ ppc = "unpark"
    /\ threads[1].pc = "park"
    /\ ~threads[1].token
    /\ threads[1].queue = <<3>>

\* C26: drop drops each thread's Sender, unparks and joins it; a thread exits
\* only after that, with an empty queue; when drop has returned every thread
\* has exited and every value sent has been consumed once; under fair
\* scheduling a drop that has begun returns.
C26_PoolDropJoinsAll ==
    /\ [][\A t \in Pool :
            (threads[t].pc # "exited" /\ threads'[t].pc = "exited") =>
                /\ ~threads[t].tx
                /\ threads[t].queue = << >>
                /\ InPoolDrop /\ pool_drop_i + 1 = t]_vars
    /\ [](ppc = "dropped" =>
            /\ \A t \in Pool : threads[t].pc = "exited" /\ ~threads[t].tx
            /\ \A x \in Values : \A t \in 1..MaxThreads :
                  sent_to[x] = t => consumed[x][t] = 1)
    /\ InPoolDrop ~> (ppc = "dropped")

\* Drop has returned for a pool of two threads that were sent three values.
C26_Witness ==
    /\ ppc = "dropped"
    /\ Len(threads) = 2
    /\ send_x = 3
    /\ sent_to[3] = 1

\* C27: whenever a receiver's PENDING->RUNNING claim has succeeded its slot
\* holds the payload, and no recv reaches the 'slot contains null ptr' assertion.
C27_ClaimSeesPayload ==
    \A r \in Receivers :
        /\ rpc[r] \in {"read", "take"} => workers[r].slot # NULL
        /\ rpc[r] # "panicked"

\* C28: the slot enqueue is about to publish into is empty, and the producer
\* never reaches the 'slot contains non-null ptr' assertion (nor the bad-state
\* panic).
C28_PublishIntoEmptySlot ==
    /\ spc = "publish" => workers[target_worker + 1].slot = NULL
    /\ spc # "panicked"

\* The receiver about to be published into has been served before.
C28_Witness ==
    /\ spc = "publish"
    /\ \E p \in Payloads : dest[p] = target_worker + 1 /\ received[p] = 1

\* Number of decrements of the counter so far: what was written minus what is left.
Decrements == CreditsWritten + CreditsOfDrop - eventfd

\* C29: the counter goes down only by 1 and only in the read of a receiver that
\* has claimed; every decrement belongs to a recv that returned a payload or is
\* about to take it; a wake that finds RS_WAITING goes back to the wait and a
\* wake that finds RS_ORPHANED returns Err, both without touching the counter
\* or any state or slot.
C29_StolenWakeupProtocol ==
    /\ [][/\ eventfd' < eventfd =>
                /\ eventfd' = eventfd - 1
                /\ \E r \in Receivers : rpc[r] = "read" /\ rpc'[r] = "take"
          /\ \A r \in Receivers :
                (rpc[r] = "check" /\ rpc'[r] # "check") =>
                    /\ workers[r].state = RS_WAITING =>
                          rpc'[r] = "poll" /\ UNCHANGED <<workers, eventfd>>
                    /\ workers[r].state = RS_ORPHANED =>
                          /\ rpc'[r] = "running" /\ rret'[r] = RetOrphaned
                          /\ UNCHANGED <<workers, eventfd>>]_vars
    /\ [](Decrements = SumReceived(MaxPayloads)
                          + Cardinality({r \in Receivers : rpc[r] = "take"}))

\* C30: a receiver that has claimed and is about to read the eventfd finds the
\* counter positive: the read does not block.
C30_ReadNeverBlocks == \A r \in Receivers : rpc[r] = "read" => eventfd > 0

\* C31: once drop has written its credit the counter stays at least 1: no
\* receiver consumes the teardown credit.
C31_TeardownCreditStays == spc = "dropped" => eventfd >= 1

\* C32: a receiver whose state is ORPHANED keeps it in every step, and when
\* drop has completed every receiver is ORPHANED.
C32_OrphanedTerminal ==
    /\ [][\A r \in Receivers :
            workers[r].state = RS_ORPHANED => workers'[r].state = RS_ORPHANED]_vars
    /\ [](spc = "dropped" => \A r \in Receivers : workers[r].state = RS_ORPHANED)

\* Drop has completed with two receivers; one was inside recv and has come
\* back with Err(Orphaned), the other has called recv again since.
C32_Witness ==
    /\ spc = "dropped"
    /\ Len(workers) = 2
    /\ \A r \in Receivers : rret[r] = RetOrphaned /\ rpc[r] = "running"
    /\ \E p \in Payloads : received[p] = 1

\* Receiver r was PENDING and unclaimed when drop stored ORPHANED over it: it is
\* ORPHANED, its payload is in its slot and its thread is not past a claim.
OrphanedArmed(r) ==
    /\ workers[r].state = RS_ORPHANED
    /\ workers[r].slot # NULL
    /\ rpc[r] \in {"poll", "check", "running"}

\* C33: a receiver that drop found PENDING and unclaimed keeps its payload in
\* its slot, that payload is never returned by a recv, and its recv returns
\* Err(Orphaned).
C33_ArmedOrphanedLosesPayload ==
    /\ [][\A r \in Receivers :
            (workers[r].state = RS_PENDING /\ workers'[r].state = RS_ORPHANED) =>
                (workers[r].slot # NULL /\ rpc[r] \in {"poll", "check"})]_vars
    /\ [][\A r \in Receivers :
            OrphanedArmed(r) =>
                /\ workers'[r] = workers[r]
                /\ rpc'[r] \in {"poll", "check", "running"}
                /\ rpc'[r] = "running" => rret'[r] = RetOrphaned]_vars
    /\ [](\A r \in Receivers : OrphanedArmed(r) => received[workers[r].slot] = 0)
    /\ \A r \in 1..MaxReceivers :
          (r \in Receivers /\ OrphanedArmed(r))
              ~> (r \in Receivers /\ rpc[r] = "running" /\ rret[r] = RetOrphaned)

\* The receiver enqueue's loop examines in its iteration i (1-based index).
Examined(i) == ((i + next_worker) % Len(workers)) + 1

\* C34: a call starts its scan at next_worker (i = 0); iteration i examines the
\* receiver at (i + next_worker) mod len and nothing else; on WAITING it arms
\* that receiver and stops, otherwise it moves to i + 1; so the chosen receiver
\* is the first in cyclic order that was WAITING when examined, and the i
\* receivers before it were examined once each and were not WAITING.
C34_ScanOrder ==
    /\ [][(spc = "idle" /\ spc' = "scan") => enq_i' = 0]_vars
    /\ [][(spc = "scan" /\ enq_i < Len(workers)
              /\ <<spc, enq_i, target_worker>>' # <<spc, enq_i, target_worker>>) =>
            LET k == Examined(enq_i)
            IN  /\ \A r \in Receivers \ {k} : workers'[r].state = workers[r].state
                /\ IF workers[k].state = RS_WAITING
                   THEN /\ workers'[k].state = RS_PENDING
                        /\ spc' = "publish" /\ target_worker' = k - 1 /\ enq_i' = enq_i
                   ELSE /\ workers'[k].state = workers[k].state
                        /\ spc' = "scan" /\ enq_i' = enq_i + 1]_vars
    /\ [](spc = "scan" => (enq_i <= Len(workers) /\ RS_WAITING \notin seen))
    /\ [](spc = "publish" =>
            /\ enq_i < Len(workers)
            /\ target_worker + 1 = Examined(enq_i)
            /\ seen \ {RS_WAITING} \subseteq {RS_PENDING, RS_RUNNING}
            /\ (enq_i > 0 => seen # {RS_WAITING}))

\* The scan started at receiver 2 (next_worker = 1), found it not WAITING,
\* wrapped around and armed receiver 1.
C34_Witness ==
    /\ Len(workers) = 2
    /\ spc = "publish"
    /\ next_worker = 1
    /\ enq_i = 1
    /\ target_worker = 0
    /\ workers[2].state # RS_WAITING

C36_EnqueueOnePass ==
    /\ [](spc = "scan" =>
            /\ enq_i <= Len(workers)
            /\ ENABLED (enqueue_scan \/ enqueue_refuse))
    /\ [](spc = "publish" =>
            /\ enq_i + 1 <= Len(workers)
            /\ ENABLED enqueue_publish)
    /\ [][(spc = "scan" /\ <<spc, enq_i>>' # <<spc, enq_i>>) =>
              \/ spc' = "scan" /\ enq_i' = enq_i + 1
              \/ spc' = "publish" /\ enq_i' = enq_i
              \/ spc' = "idle" /\ enq_i = Len(workers) /\ enq_ret' = RetSome(enq_x)]_vars
    /\ [][(spc = "publish" /\ spc' # spc) => (spc' = "idle" /\ enq_ret' = RetNone)]_vars

\* A call examined both receivers, found neither WAITING and returned Some(x);
\* receiver 1 has entered recv since it was examined and was not looked at again.
C36_Witness ==
    /\ Len(workers) = 2
    /\ spc = "idle"
    /\ enq_ret = RetSome(enq_x)
    /\ enq_i = 2
    /\ next_worker = 0
    /\ workers[1].state = RS_WAITING
    /\ workers[2].state = RS_RUNNING

\* C37: a consumer thread outside recv (about to enter it, or back from it)
\* has its receiver RUNNING or ORPHANED; enqueue's scan never meets ORPHANED,
\* recv's claim never meets RUNNING, the producer never panics, and a consumer
\* thread panics only at the null-slot assertion after its read, never at a
\* 'bad state' arm.
C37_NoBadState ==
    /\ [](\A r \in Receivers :
            /\ rpc[r] = "running" => workers[r].state \in {RS_RUNNING, RS_ORPHANED}
            /\ rpc[r] = "check" => workers[r].state # RS_RUNNING)
    /\ [](spc = "scan" => \A r \in Receivers : workers[r].state # RS_ORPHANED)
    /\ [](spc # "panicked")
    /\ [][\A r \in Receivers :
            (rpc[r] # "panicked" /\ rpc'[r] = "panicked") => rpc[r] = "take"]_vars

\* One receiver is back from a recv that returned a payload, the other from one
\* that returned Err(Orphaned).
C37_Witness ==
    /\ Len(workers) = 2
    /\ rpc[1] = "running" /\ rret[1].tag = "Ok" /\ workers[1].state = RS_ORPHANED
    /\ rpc[2] = "running" /\ rret[2] = RetOrphaned

\* C38, as stated: a receiver whose state is RUNNING has an empty slot, also
\* between its claim and its return from recv.
C38_BusyHasEmptySlot ==
    \A r \in Receivers : workers[r].state = RS_RUNNING => workers[r].slot = NULL

\* C38, amended: a receiver whose state is RUNNING and whose thread is outside
\* recv (it has not entered recv yet, or has returned from it) has an empty slot.
C38_BusyOutsideRecvHasEmptySlot ==
    \A r \in Receivers :
        (workers[r].state = RS_RUNNING /\ rpc[r] = "running") => workers[r].slot = NULL

\* A receiver is back from a recv that returned a payload: RUNNING, slot empty.
C38_Witness ==
    \E r \in Receivers :
        /\ rpc[r] = "running"
        /\ rret[r].tag = "Ok"
        /\ workers[r].state = RS_RUNNING
        /\ workers[r].slot = NULL

\* The Sender has not been dropped.
SenderAlive == spc \in {"idle", "scan", "publish"}

\* C39: while the Sender is alive, when no receiver is PENDING, none is between
\* its claim and its read, and workers_to_unblock is 0, the counter is 0.
C39_NoResidualCredits ==
    (/\ SenderAlive
     /\ workers_to_unblock = 0
     /\ \A r \in Receivers : workers[r].state # RS_PENDING /\ rpc[r] # "read")
        => eventfd = 0

\* Two payloads were flushed and delivered, both receivers are back in the wait
\* and the counter is 0 again.
C39_Witness ==
    /\ spc = "idle"
    /\ workers_to_unblock = 0
    /\ Len(workers) = 2
    /\ received[1] = 1 /\ received[2] = 1
    /\ \A r \in Receivers : workers[r].state = RS_WAITING /\ rpc[r] = "poll"
    /\ eventfd = 0

\* C40: next_worker is 0 while there are no receivers and a valid index of
\* workers otherwise; the scan takes its remainder only with a non-empty list.
C40_CursorValid ==
    /\ Len(workers) = 0 => next_worker = 0
    /\ Len(workers) > 0 => (0 <= next_worker /\ next_worker < Len(workers))
    /\ spc = "publish" =>
          (Len(workers) > 0 /\ 0 <= target_worker /\ target_worker < Len(workers))

\* The last receiver of the list was armed and the cursor wrapped to 0.
C40_Witness ==
    /\ Len(workers) = 2
    /\ spc = "idle"
    /\ enq_ret = RetNone
    /\ target_worker = 1
    /\ next_worker = 0

====
